---- MODULE Spec2Model ----
(***************************************************************************)
(* Head-movement detection backend: the FaceDetector classifier            *)
(* (backend/routes/main.py) and the module-level capture session of        *)
(* backend/routes/detection.py (globals camera / detector, the control     *)
(* routes and the generate_frames stream).                                 *)
(*                                                                         *)
(* Two specifications:                                                     *)
(*   Spec           the Flask routes of detection.py, one thread per       *)
(*                  request (app.run serves threaded), interleaved at the  *)
(*                  granularity of reads and writes of the shared globals  *)
(*                  and objects;                                           *)
(*   SpecClassifier one FaceDetector driven sequentially, as test_camera() *)
(*                  of main.py drives it (detect_movement / recalibrate).  *)
(***************************************************************************)
EXTENDS Integers, Sequences, FiniteSets, TLC

(* ------------------------------ bounds --------------------------------- *)
\* request threads served at the same time
NumThreads == 2
\* cv2.VideoCapture objects constructed in one behaviour
MaxCams == 2
\* FaceDetector objects constructed in one behaviour
MaxDets == 2
\* landmark coordinates are multiples of 1/LmDen (a power of two, so that
\* nose_tip.x * w is computed exactly in floating point)
LmDen == 16

Threads == 1..NumThreads
CamIds == 1..MaxCams
DetIds == 1..MaxDets

\* Python None for the globals and locals that hold object references
None == 0
\* Python None for reference_nose_tip
NoRef == <<>>

\* numerators of the normalised nose-tip coordinates the landmark model yields
\* (mediapipe may return coordinates slightly outside [0,1])
LmVals == {-1, 8, 9, 10}
\* frame.shape as <<w, h>>
FrameSizes == {<<20, 20>>, <<20, 60>>, <<60, 20>>}

(* ---------------------------- FaceDetector ------------------------------ *)
\* w * 0.05 and h * 0.05: d > w * 0.05 iff ThresholdDen * d > w
ThresholdDen == 20

Abs(x) == IF x < 0 THEN -x ELSE x

\* Python int(): truncation toward zero of a / b
Trunc(a, b) == IF a >= 0 THEN a \div b ELSE -((-a) \div b)

\* a frame together with what face_mesh.process finds in it
Frames ==
  [face : {TRUE}, lx : LmVals, ly : LmVals, size : FrameSizes]
    \cup [face : {FALSE}, lx : {0}, ly : {0}, size : FrameSizes]

NoFrame == [face |-> FALSE, lx |-> 0, ly |-> 0, size |-> <<0, 0>>]

\* nose_x = int(nose_tip.x * w), nose_y = int(nose_tip.y * h)
NosePixel(f) == <<Trunc(f.lx * f.size[1], LmDen), Trunc(f.ly * f.size[2], LmDen)>>

\* FaceDetector.__init__
FaceDetectorInit == [ref |-> NoRef, cal |-> FALSE, open |-> TRUE]

\* the states a FaceDetector object can be written as
DetectorStates ==
  [ref : {NoRef} \cup {NosePixel(f) : f \in Frames}, cal : BOOLEAN, open : BOOLEAN]

\* if not self.calibrated or self.reference_nose_tip is None
NeedsCalibration(d) == ~d.cal \/ d.ref = NoRef

\* the direction chosen from the displacement; "NO FACE" is the value the
\* variable was initialised with and keeps when no branch assigns
DirectionTieHorizontal(dx, dy, w, h) ==
  IF ThresholdDen * Abs(dx) > w \/ ThresholdDen * Abs(dy) > h
  THEN IF Abs(dx) >= Abs(dy)
       THEN IF ThresholdDen * dx > w THEN "RIGHT"
            ELSE IF ThresholdDen * dx < -w THEN "LEFT"
            ELSE "NO FACE"
       ELSE IF ThresholdDen * dy > h THEN "DOWN"
            ELSE IF ThresholdDen * dy < -h THEN "UP"
            ELSE "NO FACE"
  ELSE "CENTER"
DirectionFallsToCenter(dx, dy, w, h) ==
  IF ThresholdDen * Abs(dx) > w \/ ThresholdDen * Abs(dy) > h
  THEN IF Abs(dx) > Abs(dy)
       THEN IF ThresholdDen * dx > w THEN "RIGHT"
            ELSE IF ThresholdDen * dx < -w THEN "LEFT"
            ELSE "CENTER"
       ELSE IF ThresholdDen * dy > h THEN "DOWN"
            ELSE IF ThresholdDen * dy < -h THEN "UP"
            ELSE "CENTER"
  ELSE "CENTER"
Direction(dx, dy, w, h) ==
  IF ThresholdDen * Abs(dx) > w \/ ThresholdDen * Abs(dy) > h
  THEN IF Abs(dx) > Abs(dy)
       THEN IF ThresholdDen * dx > w THEN "RIGHT"
            ELSE IF ThresholdDen * dx < -w THEN "LEFT"
            ELSE "NO FACE"
       ELSE IF ThresholdDen * dy > h THEN "DOWN"
            ELSE IF ThresholdDen * dy < -h THEN "UP"
            ELSE "NO FACE"
  ELSE "CENTER"

\* detect_movement run without interruption: the direction returned and the
\* detector afterwards
DetectMovementNoFaceResets(d, f) ==
  IF ~f.face
  THEN [dir |-> "NO FACE", det |-> [d EXCEPT !.ref = NoRef, !.cal = FALSE]]
  ELSE IF NeedsCalibration(d)
  THEN [dir |-> "CENTER (Calibrated)",
        det |-> [d EXCEPT !.ref = NosePixel(f), !.cal = TRUE]]
  ELSE [dir |-> Direction(NosePixel(f)[1] - d.ref[1], NosePixel(f)[2] - d.ref[2],
                          f.size[1], f.size[2]),
        det |-> d]
DetectMovementNoFlag(d, f) ==
  IF ~f.face
  THEN [dir |-> "NO FACE", det |-> d]
  ELSE IF NeedsCalibration(d)
  THEN [dir |-> "CENTER (Calibrated)", det |-> [d EXCEPT !.ref = NosePixel(f)]]
  ELSE [dir |-> Direction(NosePixel(f)[1] - d.ref[1], NosePixel(f)[2] - d.ref[2],
                          f.size[1], f.size[2]),
        det |-> d]
DetectMovementTracks(d, f) ==
  IF ~f.face
  THEN [dir |-> "NO FACE", det |-> d]
  ELSE IF NeedsCalibration(d)
  THEN [dir |-> "CENTER (Calibrated)",
        det |-> [d EXCEPT !.ref = NosePixel(f), !.cal = TRUE]]
  ELSE [dir |-> Direction(NosePixel(f)[1] - d.ref[1], NosePixel(f)[2] - d.ref[2],
                          f.size[1], f.size[2]),
        det |-> [d EXCEPT !.ref = NosePixel(f)]]
DetectMovement(d, f) ==
  IF ~f.face
  THEN [dir |-> "NO FACE", det |-> d]
  ELSE IF NeedsCalibration(d)
  THEN [dir |-> "CENTER (Calibrated)",
        det |-> [d EXCEPT !.ref = NosePixel(f), !.cal = TRUE]]
  ELSE [dir |-> Direction(NosePixel(f)[1] - d.ref[1], NosePixel(f)[2] - d.ref[2],
                          f.size[1], f.size[2]),
        det |-> d]

\* FaceDetector.recalibrate
RecalibrateKeepsRef(d) == [d EXCEPT !.cal = FALSE]
RecalibrateKeepsFlag(d) == [d EXCEPT !.ref = NoRef]
Recalibrate(d) == [d EXCEPT !.ref = NoRef, !.cal = FALSE]

\* FaceDetector.release: face_mesh.close()
Release(d) == [d EXCEPT !.open = FALSE]


(* ------------------------------- state ---------------------------------- *)
VARIABLES
  camera,         \* detection.py global camera: None or a VideoCapture
  detector,       \* detection.py global detector: None or a FaceDetector
  videoCaptures,  \* every VideoCapture: "unborn", "open", "unopened", "released"
  faceDetectors,  \* every FaceDetector: reference_nose_tip, calibrated, face_mesh
  nDets,          \* FaceDetector objects constructed so far
  th,             \* the request threads: route, position, locals, outcome
  standalone      \* the detector of test_camera() and its last call

vars == <<camera, detector, videoCaptures, faceDetectors, nDets, th, standalone>>
session == <<camera, detector, videoCaptures, faceDetectors, nDets>>

\* frames the camera of the session delivers (one resolution)
SessionFrames ==
  {f \in Frames : f.size = <<20, 20>> /\ f.lx \in {0, 8, 10} /\ f.ly \in {0, 8}}

Routes == {"start", "stop", "recalibrate", "status", "video_feed"}

IdleThread ==
  [op |-> "none", pc |-> "idle", fd |-> None, cap |-> None, frame |-> NoFrame,
   dx |-> 0, dir |-> "", result |-> "none",
   solo |-> TRUE, preCam |-> None, preDet |-> None, opens |-> 0,
   stopped |-> "no"]

LastNone == [op |-> "none", frame |-> NoFrame, pre |-> FaceDetectorInit, dir |-> ""]

Init ==
  /\ camera = None
  /\ detector = None
  /\ videoCaptures = [c \in CamIds |-> "unborn"]
  /\ faceDetectors = [d \in DetIds |-> FaceDetectorInit]
  /\ nDets = 0
  /\ th = [t \in Threads |-> IdleThread]
  /\ standalone = [det |-> FaceDetectorInit, fresh |-> FaceDetectorInit,
                   freshDir |-> "", last |-> LastNone]

(* --------------------------- thread plumbing ---------------------------- *)
\* another thread took a step: a running request is no longer undisturbed
\* (what is remembered of its start matters for an undisturbed call only), and
\* the outcome of a finished request is forgotten
Disturbed(r) ==
  IF r.pc # "idle"
  THEN [r EXCEPT !.solo = FALSE, !.preCam = None, !.preDet = None, !.opens = 0]
  ELSE IdleThread

\* the positions of a stream inside its while loop, camera and classifier bound
StreamLoopPcs ==
  {"read", "dm_process", "dm_cal", "dm_ref_none", "dm_set_ref", "dm_set_cal",
   "dm_dx", "dm_dy", "dm_draw", "yielded"}

\* a stream in its loop remembers that a stop_detection call has returned
\* success meanwhile
StopSeen(r, new) ==
  IF /\ new.op = "stop" /\ new.pc = "idle" /\ new.result = "success"
     /\ r.op = "video_feed" /\ r.pc \in StreamLoopPcs /\ r.stopped = "no"
  THEN [r EXCEPT !.stopped = "stopped"]
  ELSE r

\* thread t moves to the local state new
Go(t, new) ==
  th' = [u \in Threads |-> IF u = t THEN new ELSE StopSeen(Disturbed(th[u]), new)]

\* the stream of thread t yields a part (and remembers when it does so after a
\* stop)
Yielded(r) ==
  [r EXCEPT !.pc = "yielded",
            !.stopped = IF @ = "stopped" THEN "yielded_after_stop" ELSE @]

\* the request of thread t ends with outcome res; its locals die
Returned(t, res) ==
  [th[t] EXCEPT !.pc = "idle", !.result = res, !.fd = None, !.cap = None,
                !.frame = NoFrame, !.dx = 0, !.dir = ""]

\* an exception: the routes with try/except answer 500 "error", the generator
\* and detection_status let it escape
Raised(t, what) ==
  IF th[t].op \in {"start", "stop", "recalibrate"}
  THEN Returned(t, "error")
  ELSE Returned(t, what)

\* no other request is in the middle of its handler: every other thread is
\* free, or is a stream suspended at its yield
Quiescent(t) == \A u \in Threads \ {t} : th[u].pc \in {"idle", "yielded"}

\* a request arrives and is given to a free thread
Begin(t) ==
  /\ th[t].pc = "idle"
  /\ \E o \in Routes :
       th' = [th EXCEPT ![t] =
                [IdleThread EXCEPT
                   !.op = o,
                   !.solo = Quiescent(t),
                   !.pc = CASE o = "stop" -> "stop_cam_check"
                            [] o = "status" -> "status_none"
                            [] OTHER -> "gd_check",
                   !.preCam = IF Quiescent(t) THEN camera ELSE None,
                   !.preDet = IF Quiescent(t) THEN detector ELSE None]]
  /\ UNCHANGED <<session, standalone>>

(* ---------------------------- get_detector ------------------------------ *)
\* if detector is None
GetDetectorCheckNoCreate(t) ==
  /\ th[t].pc = "gd_check"
  /\ Go(t, IF detector = None THEN Raised(t, "exception")
           ELSE [th[t] EXCEPT !.pc = "gd_ret"])
  /\ UNCHANGED <<session, standalone>>
GetDetectorCheck(t) ==
  /\ th[t].pc = "gd_check"
  /\ Go(t, [th[t] EXCEPT !.pc = IF detector = None THEN "gd_new" ELSE "gd_ret"])
  /\ UNCHANGED <<session, standalone>>

\* detector = FaceDetector()
GetDetectorNew(t) ==
  /\ th[t].pc = "gd_new"
  /\ nDets < MaxDets
  /\ nDets' = nDets + 1
  /\ faceDetectors' = [faceDetectors EXCEPT ![nDets + 1] = FaceDetectorInit]
  /\ detector' = nDets + 1
  /\ Go(t, [th[t] EXCEPT !.pc = "gd_ret"])
  /\ UNCHANGED <<camera, videoCaptures, standalone>>

\* return detector; the caller goes on with get_camera or, in recalibrate,
\* with face_detector.recalibrate()
GetDetectorReturn(t) ==
  /\ th[t].pc = "gd_ret"
  /\ Go(t, [th[t] EXCEPT !.fd = detector,
                         !.pc = IF th[t].op = "recalibrate" THEN "rc_ref"
                                ELSE "gc_none"])
  /\ UNCHANGED <<session, standalone>>

(* ----------------------------- get_camera ------------------------------- *)
\* if camera is None or ...
GetCameraNone(t) ==
  /\ th[t].pc = "gc_none"
  /\ Go(t, [th[t] EXCEPT !.pc = IF camera = None THEN "gc_new" ELSE "gc_isOpened"])
  /\ UNCHANGED <<session, standalone>>

\* ... not camera.isOpened()
GetCameraIsOpenedAlwaysNew(t) ==
  /\ th[t].pc = "gc_isOpened"
  /\ Go(t, IF camera = None THEN Raised(t, "exception")
           ELSE [th[t] EXCEPT !.pc = "gc_new"])
  /\ UNCHANGED <<session, standalone>>
GetCameraIsOpened(t) ==
  /\ th[t].pc = "gc_isOpened"
  /\ Go(t, IF camera = None THEN Raised(t, "exception")
           ELSE [th[t] EXCEPT !.pc = IF videoCaptures[camera] = "open"
                                     THEN "gc_ret" ELSE "gc_new"])
  /\ UNCHANGED <<session, standalone>>

\* camera = cv2.VideoCapture(0): the device opens or it does not; whether it
\* opens while another handle holds it is the platform's choice, not the code's
GetCameraNew(t) ==
  /\ th[t].pc = "gc_new"
  /\ \E c \in CamIds :
       /\ videoCaptures[c] = "unborn"
       /\ \A b \in CamIds : b < c => videoCaptures[b] # "unborn"
       /\ \E ok \in BOOLEAN :
            videoCaptures' = [videoCaptures EXCEPT
                                ![c] = IF ok THEN "open" ELSE "unopened"]
       /\ camera' = c
  /\ Go(t, [th[t] EXCEPT !.pc = "gc_ret", !.opens = @ + 1])
  /\ UNCHANGED <<detector, faceDetectors, nDets, standalone>>

\* return camera
GetCameraReturn(t) ==
  /\ th[t].pc = "gc_ret"
  /\ Go(t, [th[t] EXCEPT !.cap = camera,
                         !.pc = IF th[t].op = "start" THEN "start_isOpened"
                                ELSE "read"])
  /\ UNCHANGED <<session, standalone>>

(* --------------------------- start_detection ---------------------------- *)
\* if cap.isOpened(): 200 "success", else 500 "error"
StartIsOpenedAlwaysSuccess(t) ==
  /\ th[t].pc = "start_isOpened"
  /\ Go(t, IF th[t].cap = None THEN Raised(t, "exception")
           ELSE Returned(t, "success"))
  /\ UNCHANGED <<session, standalone>>
StartIsOpenedCalibrates(t) ==
  /\ th[t].pc = "start_isOpened"
  /\ Go(t, IF th[t].cap = None THEN Raised(t, "exception")
           ELSE IF videoCaptures[th[t].cap] = "open" THEN Returned(t, "success")
           ELSE Returned(t, "error"))
  /\ faceDetectors' = IF th[t].fd # None
                      THEN [faceDetectors EXCEPT ![th[t].fd].cal = TRUE]
                      ELSE faceDetectors
  /\ UNCHANGED <<camera, detector, videoCaptures, nDets, standalone>>
StartIsOpened(t) ==
  /\ th[t].pc = "start_isOpened"
  /\ Go(t, IF th[t].cap = None THEN Raised(t, "exception")
           ELSE IF videoCaptures[th[t].cap] = "open" THEN Returned(t, "success")
           ELSE Returned(t, "error"))
  /\ UNCHANGED <<session, standalone>>

(* ---------------------------- stop_detection ---------------------------- *)
\* if camera is not None
StopCameraCheck(t) ==
  /\ th[t].pc = "stop_cam_check"
  /\ Go(t, [th[t] EXCEPT !.pc = IF camera # None THEN "stop_cam_release"
                                ELSE "stop_det_check"])
  /\ UNCHANGED <<session, standalone>>

\* camera.release()
StopCameraReleaseSkipped(t) ==
  /\ th[t].pc = "stop_cam_release"
  /\ Go(t, [th[t] EXCEPT !.pc = "stop_cam_none"])
  /\ UNCHANGED <<session, standalone>>
StopCameraRelease(t) ==
  /\ th[t].pc = "stop_cam_release"
  /\ IF camera = None
     THEN /\ Go(t, Raised(t, "exception"))
          /\ UNCHANGED videoCaptures
     ELSE /\ videoCaptures' = [videoCaptures EXCEPT ![camera] = "released"]
          /\ Go(t, [th[t] EXCEPT !.pc = "stop_cam_none"])
  /\ UNCHANGED <<camera, detector, faceDetectors, nDets, standalone>>

\* camera = None
StopCameraNone(t) ==
  /\ th[t].pc = "stop_cam_none"
  /\ camera' = None
  /\ Go(t, [th[t] EXCEPT !.pc = "stop_det_check"])
  /\ UNCHANGED <<detector, videoCaptures, faceDetectors, nDets, standalone>>

\* if detector is not None
StopDetectorCheck(t) ==
  /\ th[t].pc = "stop_det_check"
  /\ Go(t, IF detector # None THEN [th[t] EXCEPT !.pc = "stop_det_release"]
           ELSE Returned(t, "success"))
  /\ UNCHANGED <<session, standalone>>

\* detector.release(): face_mesh.close(), which raises on a closed face mesh
StopDetectorRelease(t) ==
  /\ th[t].pc = "stop_det_release"
  /\ IF detector = None \/ ~faceDetectors[detector].open
     THEN /\ Go(t, Raised(t, "exception"))
          /\ UNCHANGED faceDetectors
     ELSE /\ faceDetectors' = [faceDetectors EXCEPT ![detector] = Release(@)]
          /\ Go(t, [th[t] EXCEPT !.pc = "stop_det_none"])
  /\ UNCHANGED <<camera, detector, videoCaptures, nDets, standalone>>

\* detector = None, then 200 "success"
StopDetectorNone(t) ==
  /\ th[t].pc = "stop_det_none"
  /\ detector' = None
  /\ Go(t, Returned(t, "success"))
  /\ UNCHANGED <<camera, videoCaptures, faceDetectors, nDets, standalone>>

(* ------------------------------ recalibrate ----------------------------- *)
\* face_detector.recalibrate(): self.reference_nose_tip = None
RecalibrateRef(t) ==
  /\ th[t].pc = "rc_ref"
  /\ IF th[t].fd = None
     THEN /\ Go(t, Raised(t, "exception"))
          /\ UNCHANGED faceDetectors
     ELSE /\ faceDetectors' = [faceDetectors EXCEPT ![th[t].fd].ref = NoRef]
          /\ Go(t, [th[t] EXCEPT !.pc = "rc_cal"])
  /\ UNCHANGED <<camera, detector, videoCaptures, nDets, standalone>>

\* self.calibrated = False, then 200 "success"
RecalibrateCal(t) ==
  /\ th[t].pc = "rc_cal"
  /\ faceDetectors' = [faceDetectors EXCEPT ![th[t].fd].cal = FALSE]
  /\ Go(t, Returned(t, "success"))
  /\ UNCHANGED <<camera, detector, videoCaptures, nDets, standalone>>

(* --------------------------- detection_status --------------------------- *)
\* is_active = camera is not None and ...
StatusNoneOpens(t) ==
  /\ th[t].pc = "status_none"
  /\ IF camera = None /\ videoCaptures[MaxCams] = "unborn"
     THEN /\ \E c \in CamIds :
               /\ videoCaptures[c] = "unborn"
               /\ \A b \in CamIds : b < c => videoCaptures[b] # "unborn"
               /\ videoCaptures' = [videoCaptures EXCEPT ![c] = "open"]
               /\ camera' = c
          /\ Go(t, Returned(t, "active"))
     ELSE /\ Go(t, IF camera = None THEN Returned(t, "inactive")
                   ELSE [th[t] EXCEPT !.pc = "status_isOpened"])
          /\ UNCHANGED <<camera, videoCaptures>>
  /\ UNCHANGED <<detector, faceDetectors, nDets, standalone>>
StatusNone(t) ==
  /\ th[t].pc = "status_none"
  /\ Go(t, IF camera = None THEN Returned(t, "inactive")
           ELSE [th[t] EXCEPT !.pc = "status_isOpened"])
  /\ UNCHANGED <<session, standalone>>

\* ... camera.isOpened()
StatusIsOpenedNoCheck(t) ==
  /\ th[t].pc = "status_isOpened"
  /\ Go(t, IF camera = None THEN Raised(t, "exception")
           ELSE Returned(t, "active"))
  /\ UNCHANGED <<session, standalone>>
StatusIsOpened(t) ==
  /\ th[t].pc = "status_isOpened"
  /\ Go(t, IF camera = None THEN Raised(t, "exception")
           ELSE IF videoCaptures[camera] = "open" THEN Returned(t, "active")
           ELSE Returned(t, "inactive"))
  /\ UNCHANGED <<session, standalone>>

(* ---------------------------- generate_frames --------------------------- *)
\* success, frame = cap.read(); if not success: break
\* a handle that is not open yields no frame; an open one yields a frame or
\* fails (the device erred)
StreamRead(t) ==
  /\ th[t].pc = "read"
  /\ IF th[t].cap = None
     THEN Go(t, Raised(t, "exception"))
     ELSE IF videoCaptures[th[t].cap] # "open"
     THEN Go(t, Returned(t, "ended"))
     ELSE \/ \E f \in SessionFrames :
               Go(t, [th[t] EXCEPT !.frame = f, !.pc = "dm_process"])
          \/ Go(t, Returned(t, "ended"))
  /\ UNCHANGED <<session, standalone>>

\* detect_movement: results = self.face_mesh.process(rgb_frame), which raises
\* on a closed face mesh; direction = "NO FACE"; if results.multi_face_landmarks
DetectProcess(t) ==
  /\ th[t].pc = "dm_process"
  /\ Go(t, IF th[t].fd = None THEN Raised(t, "exception")
           ELSE IF ~faceDetectors[th[t].fd].open THEN Raised(t, "use_after_release")
           ELSE IF ~th[t].frame.face
           THEN Yielded([th[t] EXCEPT !.dir = "NO FACE"])
           ELSE [th[t] EXCEPT !.pc = "dm_cal"])
  /\ UNCHANGED <<session, standalone>>

\* if not self.calibrated ...
DetectReadCalibrated(t) ==
  /\ th[t].pc = "dm_cal"
  /\ Go(t, [th[t] EXCEPT !.pc = IF ~faceDetectors[th[t].fd].cal THEN "dm_set_ref"
                                ELSE "dm_ref_none"])
  /\ UNCHANGED <<session, standalone>>

\* ... or self.reference_nose_tip is None
DetectReadReference(t) ==
  /\ th[t].pc = "dm_ref_none"
  /\ Go(t, [th[t] EXCEPT !.pc = IF faceDetectors[th[t].fd].ref = NoRef
                                THEN "dm_set_ref" ELSE "dm_dx"])
  /\ UNCHANGED <<session, standalone>>

\* self.reference_nose_tip = (nose_x, nose_y)
DetectSetReference(t) ==
  /\ th[t].pc = "dm_set_ref"
  /\ faceDetectors' = [faceDetectors EXCEPT ![th[t].fd].ref = NosePixel(th[t].frame)]
  /\ Go(t, [th[t] EXCEPT !.pc = "dm_set_cal"])
  /\ UNCHANGED <<camera, detector, videoCaptures, nDets, standalone>>

\* self.calibrated = True; direction = "CENTER (Calibrated)"; the frame is
\* encoded and yielded
DetectSetCalibrated(t) ==
  /\ th[t].pc = "dm_set_cal"
  /\ faceDetectors' = [faceDetectors EXCEPT ![th[t].fd].cal = TRUE]
  /\ Go(t, Yielded([th[t] EXCEPT !.dir = "CENTER (Calibrated)"]))
  /\ UNCHANGED <<camera, detector, videoCaptures, nDets, standalone>>

\* dx = nose_x - self.reference_nose_tip[0]
DetectDx(t) ==
  /\ th[t].pc = "dm_dx"
  /\ Go(t, IF faceDetectors[th[t].fd].ref = NoRef THEN Raised(t, "exception")
           ELSE [th[t] EXCEPT
                   !.dx = NosePixel(th[t].frame)[1] - faceDetectors[th[t].fd].ref[1],
                   !.pc = "dm_dy"])
  /\ UNCHANGED <<session, standalone>>

\* dy = nose_y - self.reference_nose_tip[1]; the direction is determined
DetectDy(t) ==
  /\ th[t].pc = "dm_dy"
  /\ Go(t, IF faceDetectors[th[t].fd].ref = NoRef THEN Raised(t, "exception")
           ELSE [th[t] EXCEPT
                   !.dir = Direction(th[t].dx,
                                     NosePixel(th[t].frame)[2]
                                       - faceDetectors[th[t].fd].ref[2],
                                     th[t].frame.size[1], th[t].frame.size[2]),
                   !.pc = "dm_draw"])
  /\ UNCHANGED <<session, standalone>>

\* cv2.circle / cv2.line with self.reference_nose_tip; the frame is encoded
\* and yielded
DetectDraw(t) ==
  /\ th[t].pc = "dm_draw"
  /\ Go(t, IF faceDetectors[th[t].fd].ref = NoRef THEN Raised(t, "exception")
           ELSE Yielded(th[t]))
  /\ UNCHANGED <<session, standalone>>

\* the consumer pulls the next part: the while loop goes round
StreamPullRebinds(t) ==
  /\ th[t].pc = "yielded"
  /\ Go(t, [th[t] EXCEPT !.pc = "read", !.frame = NoFrame, !.dx = 0, !.dir = "",
                         !.cap = IF camera # None THEN camera ELSE @,
                         !.fd = IF detector # None THEN detector ELSE @])
  /\ UNCHANGED <<session, standalone>>
StreamPull(t) ==
  /\ th[t].pc = "yielded"
  /\ Go(t, [th[t] EXCEPT !.pc = "read", !.frame = NoFrame, !.dx = 0, !.dir = ""])
  /\ UNCHANGED <<session, standalone>>

\* the consumer disconnects: the generator is closed at its yield
StreamClose(t) ==
  /\ th[t].pc = "yielded"
  /\ Go(t, Returned(t, "closed"))
  /\ UNCHANGED <<session, standalone>>

(* -------------------------- the threaded server ------------------------- *)
Next ==
  \E t \in Threads :
    \/ Begin(t)
    \/ GetDetectorCheck(t) \/ GetDetectorNew(t) \/ GetDetectorReturn(t)
    \/ GetCameraNone(t) \/ GetCameraIsOpened(t) \/ GetCameraNew(t)
    \/ GetCameraReturn(t)
    \/ StartIsOpened(t)
    \/ StopCameraCheck(t) \/ StopCameraRelease(t) \/ StopCameraNone(t)
    \/ StopDetectorCheck(t) \/ StopDetectorRelease(t) \/ StopDetectorNone(t)
    \/ RecalibrateRef(t) \/ RecalibrateCal(t)
    \/ StatusNone(t) \/ StatusIsOpened(t)
    \/ StreamRead(t) \/ DetectProcess(t) \/ DetectReadCalibrated(t)
    \/ DetectReadReference(t) \/ DetectSetReference(t) \/ DetectSetCalibrated(t)
    \/ DetectDx(t) \/ DetectDy(t) \/ DetectDraw(t)
    \/ StreamPull(t) \/ StreamClose(t)

Spec == Init /\ [][Next]_vars

(* ------------------------------ test_camera ----------------------------- *)
\* the loop of test_camera(): detector.detect_movement(frame) on the next frame.
\* standalone.fresh is a FaceDetector constructed anew at the last recalibrate
\* (or at the start) and given the same frames since.
TestCameraDetect ==
  /\ \E f \in Frames :
       standalone' =
         [det |-> DetectMovement(standalone.det, f).det,
          fresh |-> DetectMovement(standalone.fresh, f).det,
          freshDir |-> DetectMovement(standalone.fresh, f).dir,
          last |-> [op |-> "detect_movement", frame |-> f, pre |-> standalone.det,
                    dir |-> DetectMovement(standalone.det, f).dir]]
  /\ UNCHANGED <<session, th>>

\* key 'c': detector.recalibrate()
TestCameraRecalibrate ==
  /\ standalone' =
       [det |-> Recalibrate(standalone.det),
        fresh |-> FaceDetectorInit,
        freshDir |-> "",
        last |-> [op |-> "recalibrate", frame |-> NoFrame, pre |-> standalone.det,
                  dir |-> ""]]
  /\ UNCHANGED <<session, th>>

NextClassifier == TestCameraDetect \/ TestCameraRecalibrate

SpecClassifier == Init /\ [][NextClassifier]_vars

(* ------------------------------- typing --------------------------------- *)
TypeOK ==
  /\ camera \in {None} \cup CamIds
  /\ detector \in {None} \cup DetIds
  /\ videoCaptures \in [CamIds -> {"unborn", "open", "unopened", "released"}]
  /\ faceDetectors \in [DetIds -> DetectorStates]
  /\ nDets \in 0..MaxDets
  /\ \A t \in Threads :
       /\ th[t].op \in Routes \cup {"none"}
       /\ th[t].fd \in {None} \cup DetIds
       /\ th[t].cap \in {None} \cup CamIds
       /\ th[t].frame \in SessionFrames \cup {NoFrame}
  /\ standalone.det \in DetectorStates

(* ======================================================================= *)
(* Claims about the classifier (SpecClassifier)                            *)
(* ======================================================================= *)
\* the last call of the standalone detector was detect_movement on a frame
\* with a face, made on a calibrated detector
LastClassified ==
  /\ standalone.last.op = "detect_movement"
  /\ standalone.last.frame.face
  /\ standalone.last.pre.cal
  /\ standalone.last.pre.ref # NoRef

LastDx == NosePixel(standalone.last.frame)[1] - standalone.last.pre.ref[1]
LastDy == NosePixel(standalone.last.frame)[2] - standalone.last.pre.ref[2]
LastW == standalone.last.frame.size[1]
LastH == standalone.last.frame.size[2]

\* C3: on a calibrated detector with reference (rx,ry), a frame of size (W,H)
\* with nose pixel (nx,ny), dx = nx-rx, dy = ny-ry, gives CENTER when
\* |dx| <= 0.05W and |dy| <= 0.05H, RIGHT when |dx| > |dy| and dx > 0.05W,
\* LEFT when |dx| > |dy| and dx < -0.05W, DOWN when |dy| >= |dx| and
\* dy > 0.05H, UP when |dy| >= |dx| and dy < -0.05H; and for W=640, H=480,
\* reference (320,240): nose (390,245) is RIGHT, (322,300) is DOWN,
\* (325,242) is CENTER.
C3_DirectionTable ==
  /\ LastClassified =>
       /\ (20 * Abs(LastDx) <= LastW /\ 20 * Abs(LastDy) <= LastH)
            => standalone.last.dir = "CENTER"
       /\ (Abs(LastDx) > Abs(LastDy) /\ 20 * LastDx > LastW)
            => standalone.last.dir = "RIGHT"
       /\ (Abs(LastDx) > Abs(LastDy) /\ 20 * LastDx < -LastW)
            => standalone.last.dir = "LEFT"
       /\ (Abs(LastDy) >= Abs(LastDx) /\ 20 * LastDy > LastH)
            => standalone.last.dir = "DOWN"
       /\ (Abs(LastDy) >= Abs(LastDx) /\ 20 * LastDy < -LastH)
            => standalone.last.dir = "UP"
  /\ Direction(390 - 320, 245 - 240, 640, 480) = "RIGHT"
  /\ Direction(322 - 320, 300 - 240, 640, 480) = "DOWN"
  /\ Direction(325 - 320, 242 - 240, 640, 480) = "CENTER"

\* a classified frame whose displacement is equal on both axes and beyond both
\* thresholds: the vertical row of the table applies
C3_Witness ==
  /\ LastClassified
  /\ Abs(LastDx) = Abs(LastDy)
  /\ 20 * LastDy > LastH
  /\ 20 * LastDx > LastW
  /\ standalone.last.dir = "DOWN"

\* C4: the first detect_movement with a detected face on a detector that is
\* not calibrated sets the reference to that frame's nose pixel, sets
\* calibrated, and returns CENTER (Calibrated), whatever the nose position.
C4_FirstFaceCalibrates ==
  (/\ standalone.last.op = "detect_movement"
   /\ standalone.last.frame.face
   /\ ~standalone.last.pre.cal)
  => /\ standalone.det.ref =
          <<Trunc(standalone.last.frame.lx * LastW, LmDen),
            Trunc(standalone.last.frame.ly * LastH, LmDen)>>
     /\ standalone.det.cal
     /\ standalone.last.dir = "CENTER (Calibrated)"

\* an uncalibrated detector has just been calibrated by a frame whose nose is
\* left of and above the frame origin
C4_Witness ==
  /\ standalone.last.op = "detect_movement"
  /\ standalone.last.frame.face
  /\ ~standalone.last.pre.cal
  /\ standalone.last.pre.ref = NoRef
  /\ standalone.det.cal
  /\ standalone.det.ref = <<-1, -3>>

\* C5: on every detector state, a frame with no detected face returns NO FACE
\* and leaves the reference and the calibrated flag as they were.
C5_NoFaceNoEffect ==
  (/\ standalone.last.op = "detect_movement"
   /\ ~standalone.last.frame.face)
  => /\ standalone.last.dir = "NO FACE"
     /\ standalone.det.ref = standalone.last.pre.ref
     /\ standalone.det.cal = standalone.last.pre.cal

\* a calibrated detector has just been given a frame without a face
C5_Witness ==
  /\ standalone.last.op = "detect_movement"
  /\ ~standalone.last.frame.face
  /\ standalone.last.pre.cal
  /\ standalone.last.pre.ref # NoRef
  /\ standalone.last.dir = "NO FACE"

\* C6: after recalibrate, from any prior state, the detector is in the state of
\* a freshly constructed one; the next frame with a face returns
\* CENTER (Calibrated) and sets the reference to its nose pixel; and from then
\* on its state and its results are those of a fresh detector given the same
\* frames.
C6_RecalibrateIsFresh ==
  /\ standalone.last.op = "recalibrate"
       => /\ standalone.det.ref = NoRef
          /\ ~standalone.det.cal
          /\ standalone.det = FaceDetectorInit
  /\ standalone.det = standalone.fresh
  /\ standalone.last.op = "detect_movement"
       => standalone.last.dir = standalone.freshDir
  /\ (/\ standalone.last.op = "detect_movement"
      /\ standalone.last.frame.face
      /\ standalone.last.pre = FaceDetectorInit)
       => /\ standalone.last.dir = "CENTER (Calibrated)"
          /\ standalone.det.ref = NosePixel(standalone.last.frame)

\* recalibrate has just been called on a calibrated detector
C6_Witness ==
  /\ standalone.last.op = "recalibrate"
  /\ standalone.last.pre.cal
  /\ standalone.last.pre.ref # NoRef
  /\ standalone.det.ref = NoRef

(* ======================================================================= *)
(* Claims about the capture session (Spec)                                 *)
(* ======================================================================= *)
\* thread t has just returned from a call of route o that no other thread
\* interleaved with
ReturnedSolo(t, o) == th[t].op = o /\ th[t].pc = "idle" /\ th[t].solo

\* thread t, running route o undisturbed so far, takes a step
SoloStep(t, o) ==
  /\ th[t].op = o
  /\ th[t].pc # "idle"
  /\ th[t].solo
  /\ th'[t].solo
  /\ th'[t] # th[t]

\* when the undisturbed call of t began, the session had an open camera and a
\* classifier
PreActive(t) ==
  /\ th[t].preCam # None
  /\ videoCaptures[th[t].preCam] = "open"
  /\ th[t].preDet # None

OpenCameras == {c \in CamIds : videoCaptures[c] = "open"}

\* C1: a stream iteration interleaved with stop never calls detect_movement
\* (face_mesh.process) on a classifier whose release() has run. (The claim's
\* second half, that a read sees the session wholly before or wholly after the
\* stop, asks for more; the first half already fails.)
C1_NoUseAfterRelease ==
  \A t \in Threads :
    /\ (th[t].pc = "dm_process" /\ th[t].fd # None) => faceDetectors[th[t].fd].open
    /\ th[t].result # "use_after_release"

\* C2: at most one camera handle that has been opened and not released exists.
C2_OneOpenCamera == Cardinality(OpenCameras) <= 1

\* C7: a start call that runs undisturbed on a session that a start has made
\* active (camera open, classifier present, no stop since) opens nothing,
\* constructs nothing, leaves camera, classifier and calibration as they are
\* and returns success; an undisturbed start opens at most one handle, and
\* exactly one when it found no camera and succeeds.
C7_StartIdempotent ==
  [][\A t \in Threads :
       /\ (SoloStep(t, "start") /\ PreActive(t))
            => /\ UNCHANGED session
               /\ th'[t].opens = 0
               /\ th'[t].pc = "idle" => th'[t].result = "success"
       /\ (SoloStep(t, "start") /\ th'[t].pc = "idle")
            => /\ th'[t].opens <= 1
               /\ (th[t].preCam = None /\ th'[t].result = "success")
                    => th'[t].opens = 1]_vars

\* a second start has returned success on an active session without opening
C7_Witness ==
  \E t \in Threads :
    /\ ReturnedSolo(t, "start")
    /\ PreActive(t)
    /\ th[t].result = "success"
    /\ th[t].opens = 0
    /\ camera = th[t].preCam

\* C8: a stop call that runs undisturbed, in any session state, returns
\* success and leaves camera and classifier absent, having released the camera
\* handle and the classifier that existed; with neither present (never
\* started, or right after a stop) it changes nothing.
C8_StopIdempotent ==
  [][\A t \in Threads :
       /\ (SoloStep(t, "stop") /\ th'[t].pc = "idle")
            => /\ th'[t].result = "success"
               /\ camera' = None
               /\ detector' = None
               /\ th[t].preCam # None => videoCaptures'[th[t].preCam] = "released"
               /\ th[t].preDet # None => ~faceDetectors'[th[t].preDet].open
       /\ (SoloStep(t, "stop") /\ th[t].preCam = None /\ th[t].preDet = None)
            => UNCHANGED session]_vars

\* a stop has returned success after releasing an open camera and a classifier
C8_Witness ==
  \E t \in Threads :
    /\ ReturnedSolo(t, "stop")
    /\ th[t].result = "success"
    /\ th[t].preCam # None
    /\ th[t].preDet # None
    /\ videoCaptures[th[t].preCam] = "released"
    /\ ~faceDetectors[th[t].preDet].open
    /\ camera = None
    /\ detector = None

C10_ReadFailureClosesDevice ==
  \A t \in Threads :
    (th[t].op = "video_feed" /\ th[t].pc = "idle" /\ th[t].result = "ended")
      => (camera = None \/ videoCaptures[camera] # "open")

(* ======================================================================= *)
(* Further claims about the capture session (Spec)                         *)
(* ======================================================================= *)
\* thread t takes a step of its handler
Steps(t) == th[t].pc # "idle" /\ th'[t].pc # th[t].pc

\* what detection_status computes
IsActive == camera # None /\ videoCaptures[camera] = "open"

\* C11: once a stop has returned while a stream was in its loop, that stream
\* yields no further part and ends by a failed read, without an error (the
\* consumer may also disconnect).
C11_StopEndsStreamCleanly ==
  \A t \in Threads :
    th[t].op = "video_feed"
      => /\ th[t].stopped # "yielded_after_stop"
         /\ (th[t].pc = "idle" /\ th[t].stopped = "stopped")
              => th[t].result \in {"ended", "closed"}

C13_StatusReports ==
  [][\A t \in Threads :
       (th[t].op = "status" /\ Steps(t))
         => /\ UNCHANGED session
            /\ (SoloStep(t, "status") /\ th'[t].pc = "idle")
                 => /\ th'[t].result \in {"active", "inactive"}
                    /\ th'[t].result = "active" <=> IsActive]_vars

\* status has answered inactive although a handle (one that did not open) is
\* registered
C13_Witness ==
  \E t \in Threads :
    /\ ReturnedSolo(t, "status")
    /\ th[t].result = "inactive"
    /\ camera # None
    /\ videoCaptures[camera] = "unopened"

C15_StopAlwaysSucceeds ==
  \A t \in Threads :
    (th[t].op = "stop" /\ th[t].pc = "idle") => th[t].result = "success"

\* C16: detect_movement, once it has taken the calibrated branch, never finds
\* the reference cleared by a recalibrate in between.
C16_RecalibrateSerialized ==
  \A t \in Threads :
    th[t].pc \in {"dm_dx", "dm_dy", "dm_draw"}
      => faceDetectors[th[t].fd].ref # NoRef

\* C18: a stream ends only by a failed read (or by its consumer leaving): a
\* read that succeeded is followed by one detect_movement call and one
\* yielded part, and no error is raised.
C18_StreamEndsOnlyOnFailedRead ==
  \A t \in Threads :
    (th[t].op = "video_feed" /\ th[t].pc = "idle")
      => th[t].result \in {"ended", "closed"}

\* C20: the calibrated flag becomes true, and a reference is set, only by a
\* step of a stream that is classifying a frame with a detected face, on the
\* classifier that stream holds; no step of start or status changes any
\* classifier's reference or flag.
C20_OnlyStreamsCalibrate ==
  [][/\ \A d \in DetIds :
          (\/ (faceDetectors'[d].ref # faceDetectors[d].ref
                 /\ faceDetectors'[d].ref # NoRef)
           \/ (~faceDetectors[d].cal /\ faceDetectors'[d].cal))
            => \E t \in Threads :
                 /\ Steps(t)
                 /\ th[t].op = "video_feed"
                 /\ th[t].pc \in {"dm_set_ref", "dm_set_cal"}
                 /\ th[t].fd = d
                 /\ th[t].frame.face
     /\ \A t \in Threads :
          (th[t].op \in {"start", "status"} /\ Steps(t))
            => UNCHANGED faceDetectors]_vars

\* a stream has calibrated its classifier on a frame with a face, after a
\* start that left it uncalibrated
C20_Witness ==
  \E t \in Threads :
    /\ th[t].op = "video_feed"
    /\ th[t].pc = "yielded"
    /\ th[t].dir = "CENTER (Calibrated)"
    /\ th[t].frame.face
    /\ th[t].preDet # None
    /\ th[t].solo
    /\ faceDetectors[th[t].fd].cal
    /\ faceDetectors[th[t].fd].ref = NosePixel(th[t].frame)

(* ======================================================================= *)
(* Further claims about the classifier (SpecClassifier)                    *)
(* ======================================================================= *)
\* the axis chosen by comparing |dx| with |dy| is within its own threshold
\* while the other axis is beyond its threshold
HorizontalChosenButVertical ==
  /\ Abs(LastDx) > Abs(LastDy)
  /\ ThresholdDen * Abs(LastDx) <= LastW
  /\ ThresholdDen * Abs(LastDy) > LastH

VerticalChosenButHorizontal ==
  /\ Abs(LastDy) >= Abs(LastDx)
  /\ ThresholdDen * Abs(LastDy) <= LastH
  /\ ThresholdDen * Abs(LastDx) > LastW

C19_ReferencePersists ==
  /\ (/\ standalone.last.op = "detect_movement"
      /\ standalone.last.pre.cal
      /\ standalone.last.pre.ref # NoRef)
       => /\ standalone.det.ref = standalone.last.pre.ref
          /\ standalone.det.cal
  /\ (/\ standalone.last.pre.ref # NoRef
      /\ standalone.det.ref # standalone.last.pre.ref)
       => (standalone.last.op = "recalibrate" /\ standalone.det.ref = NoRef)

\* a calibrated detector has classified a frame whose nose is away from the
\* reference, and the reference is what it was
C19_Witness ==
  /\ LastClassified
  /\ standalone.last.dir = "RIGHT"
  /\ NosePixel(standalone.last.frame) # standalone.det.ref
  /\ standalone.det.ref = standalone.last.pre.ref

\* C21: after every completed operation of the classifier (construction,
\* detect_movement, recalibrate, in any order) the calibrated flag is set
\* exactly when a reference is stored; the same holds for the operation's
\* starting state.
C21_FlagIffReference ==
  /\ standalone.det.cal <=> standalone.det.ref # NoRef
  /\ standalone.fresh.cal <=> standalone.fresh.ref # NoRef
  /\ standalone.last.op # "none"
       => (standalone.last.pre.cal <=> standalone.last.pre.ref # NoRef)

\* recalibrate has completed on a calibrated detector: flag and reference are
\* both cleared
C21_Witness ==
  /\ standalone.last.op = "recalibrate"
  /\ standalone.last.pre.cal
  /\ standalone.last.pre.ref # NoRef
  /\ ~standalone.det.cal
  /\ standalone.det.ref = NoRef

(* ======================================================================= *)
(* The binding of a stream (Spec)                                          *)
(* ======================================================================= *)
\* C22: a stream that has bound its camera handle and classifier keeps them
\* for its whole life: no step of its loop rebinds cap or face_detector or
\* touches the camera and detector globals, it changes no classifier but the
\* one it holds, and a read on its handle once that handle is released ends
\* the stream although a newly opened handle is registered; it gets no frame
\* from the new handle and never classifies with the new classifier.
C22_StreamKeepsBinding ==
  [][\A t \in Threads :
       (th[t].op = "video_feed" /\ th[t].pc \in StreamLoopPcs /\ Steps(t))
         => /\ th'[t].pc # "idle"
                 => (th'[t].cap = th[t].cap /\ th'[t].fd = th[t].fd)
            /\ UNCHANGED <<camera, detector, videoCaptures, nDets>>
            /\ \A d \in DetIds :
                 d # th[t].fd => faceDetectors'[d] = faceDetectors[d]
            /\ (/\ th[t].pc = "read"
                /\ th[t].cap # None
                /\ videoCaptures[th[t].cap] # "open")
                 => (th'[t].pc = "idle" /\ th'[t].result = "ended")
            /\ (/\ th[t].pc = "dm_process"
                /\ th[t].fd # None
                /\ ~faceDetectors[th[t].fd].open)
                 => (th'[t].pc = "idle"
                     /\ th'[t].result \notin {"ended", "closed"})]_vars

\* a stream suspended at its yield when stop and then a new start ran: it is
\* back at its read, holding the released handle and the closed classifier,
\* while a new open handle and a new classifier are registered
C22_Witness ==
  \E t \in Threads :
    /\ th[t].op = "video_feed"
    /\ th[t].pc = "read"
    /\ th[t].stopped = "stopped"
    /\ th[t].cap # None
    /\ videoCaptures[th[t].cap] = "released"
    /\ camera # None
    /\ camera # th[t].cap
    /\ videoCaptures[camera] = "open"
    /\ detector # None
    /\ detector # th[t].fd

====
